---------------------------- MODULE Spec2Model ----------------------------
(***************************************************************************)
(* A model of src/server.js: the target validator (validateTarget), the    *)
(* command runner (runCommand), the rate limiter and the HTTP handlers of  *)
(* the ping / traceroute service.                                          *)
(*                                                                         *)
(* Strings are sequences of one-character strings.  A JavaScript value is  *)
(* a record [type |-> typeof-like tag, val |-> payload].                   *)
(***************************************************************************)
EXTENDS Integers, Sequences, FiniteSets, TLC

(***************************************************************************)
(* Character classes of the two regular expressions (server.js:28-29).     *)
(***************************************************************************)
Lower == {"a","b","c","d","e","f","g","h","i","j","k","l","m",
          "n","o","p","q","r","s","t","u","v","w","x","y","z"}

Upper == {"A","B","C","D","E","F","G","H","I","J","K","L","M",
          "N","O","P","Q","R","S","T","U","V","W","X","Y","Z"}

Digit == {"0","1","2","3","4","5","6","7","8","9"}

\* [a-zA-Z0-9]
Alnum == Lower \cup Upper \cup Digit

\* [a-zA-Z0-9-]
AlnumHyphen == Alnum \cup {"-"}

(***************************************************************************)
(* Regular expressions as syntax trees, and their matching.                *)
(* MatchEnds(re, s, P) is the set of positions j such that re matches      *)
(* s[i+1..j] for some start position i in P (positions are 0..Len(s)).     *)
(* hi = -1 in a repetition means "unbounded" (the * quantifier).           *)
(***************************************************************************)
Cls(S) == [t |-> "cls", set |-> S]

Lit(c) == Cls({c})

Cat(a, b) == [t |-> "cat", a |-> a, b |-> b]

Alt(a, b) == [t |-> "alt", a |-> a, b |-> b]

Rep(a, lo, hi) == [t |-> "rep", a |-> a, lo |-> lo, hi |-> hi]

Opt(a) == Rep(a, 0, 1)

Star(a) == Rep(a, 0, -1)

RECURSIVE MatchEnds(_, _, _)
RECURSIVE Exactly(_, _, _, _)
RECURSIVE AtMost(_, _, _, _)
RECURSIVE Closure(_, _, _)

MatchEnds(re, s, P) ==
    IF P = {} THEN {}
    ELSE CASE re.t = "cls" -> {i + 1 : i \in {p \in P : p < Len(s) /\ s[p + 1] \in re.set}}
           [] re.t = "cat" -> MatchEnds(re.b, s, MatchEnds(re.a, s, P))
           [] re.t = "alt" -> MatchEnds(re.a, s, P) \cup MatchEnds(re.b, s, P)
           [] re.t = "rep" ->
                IF re.hi < 0 THEN Closure(re.a, s, Exactly(re.a, s, P, re.lo))
                ELSE AtMost(re.a, s, Exactly(re.a, s, P, re.lo), re.hi - re.lo)

\* The ends of exactly n matches of a in a row (by halving n).
Exactly(a, s, P, n) ==
    IF n = 0 \/ P = {} THEN P
    ELSE IF n % 2 = 1 THEN Exactly(a, s, MatchEnds(a, s, P), n - 1)
    ELSE Exactly(a, s, Exactly(a, s, P, n \div 2), n \div 2)

\* The ends of at most n matches of a in a row.
AtMost(a, s, P, n) ==
    IF n = 0 \/ P = {} THEN P
    ELSE IF n % 2 = 1 THEN AtMost(a, s, P \cup MatchEnds(a, s, P), n - 1)
    ELSE AtMost(a, s, AtMost(a, s, P, n \div 2), n \div 2)

\* The ends of any number of matches of a in a row.
Closure(a, s, P) ==
    LET N == MatchEnds(a, s, P)
    IN  IF N \subseteq P THEN P ELSE Closure(a, s, P \cup N)

\* Faulty variant of TestAnchored: the pattern without its closing $.
TestNoEndAnchor(re, s) == MatchEnds(re, s, {0}) # {}

\* /^re$/.test(s): without the m flag, ^ and $ match only at the two ends of s.
TestAnchored(re, s) == Len(s) \in MatchEnds(re, s, {0})

\* {0,61}: the upper repetition count of the interior of a label.
InteriorMax == 61

\* Faulty variant of labelRegex: [a-zA-Z0-9][a-zA-Z0-9-]{0,62}, which lets a
\* label end in a hyphen.
labelRegexHyphenEnd ==
    Cat(Cls(Alnum), Rep(Cls(AlnumHyphen), 0, InteriorMax + 1))

\* [a-zA-Z0-9]([a-zA-Z0-9-]{0,61}[a-zA-Z0-9])?
labelRegex ==
    Cat(Cls(Alnum), Opt(Cat(Rep(Cls(AlnumHyphen), 0, InteriorMax), Cls(Alnum))))

\* /^label(\.label)*$/
domainRegex == Cat(labelRegex, Star(Cat(Lit("."), labelRegex)))

\* 25[0-5]|2[0-4][0-9]|[01]?[0-9][0-9]?
octetRegex ==
    Alt(Cat(Lit("2"), Cat(Lit("5"), Cls({"0","1","2","3","4","5"}))),
        Alt(Cat(Lit("2"), Cat(Cls({"0","1","2","3","4"}), Cls(Digit))),
            Cat(Opt(Cls({"0","1"})), Cat(Cls(Digit), Opt(Cls(Digit))))))

\* /^(?:octet\.){3}octet$/
ipRegex == Cat(Rep(Cat(octetRegex, Lit(".")), 3, 3), octetRegex)

(***************************************************************************)
(* JavaScript values as the JSON body parser can hand them to the handler. *)
(***************************************************************************)
Undefined == [type |-> "undefined", val |-> <<>>]

Null == [type |-> "object", val |-> <<"null">>]

Num(n) == [type |-> "number", val |-> <<n>>]

Bool(b) == [type |-> "boolean", val |-> <<b>>]

Obj == [type |-> "object", val |-> <<"object">>]

Str(s) == [type |-> "string", val |-> s]

\* !target is the negation of this.
Truthy(v) ==
    CASE v.type = "undefined" -> FALSE
      [] v.type = "number"    -> v.val[1] # 0
      [] v.type = "boolean"   -> v.val[1]
      [] v.type = "string"    -> v.val # <<>>
      [] v.type = "object"    -> v # Null

domainRegexTest(s) == TestAnchored(domainRegex, s)

ipRegexTest(s) == TestAnchored(ipRegex, s)

validateTarget(target) ==
    IF ~Truthy(target) \/ target.type # "string" THEN FALSE
    ELSE domainRegexTest(target.val) \/ ipRegexTest(target.val)


(***************************************************************************)
(* Strings used by the server, as character sequences.                     *)
(***************************************************************************)
PingUnix == <<"p","i","n","g"," ","-","c"," ","4"," ">>

PingWindows == <<"p","i","n","g"," ","-","n"," ","4"," ">>

TracerouteUnix == <<"t","r","a","c","e","r","o","u","t","e"," ">>

TracerouteWindows == <<"t","r","a","c","e","r","t"," ">>

CommandFailed == <<"C","o","m","m","a","n","d"," ","f","a","i","l","e","d",":"," ">>

SpawnFailed == <<"s","p","a","w","n"," ","/","b","i","n","/","s","h"," ","E","A","G","A","I","N">>

(***************************************************************************)
(* Configuration (server.js:16-20, 35, 108).                               *)
(***************************************************************************)
windowMs == 1 * 60 * 1000

max == 10

DefaultTimeout == 30000

TracerouteTimeout == 60000

\* The clock advances in steps of the shortest deadline.
TickMs == DefaultTimeout

(***************************************************************************)
(* Bounds of the model.                                                    *)
(***************************************************************************)
\* Requests that can be in flight at once.
MaxSlots == 2

\* Requests of one IP the model follows beyond the limit within a window.
MaxOver == 1

Slots == 1..MaxSlots

IPs == {"ip1", "ip2"}

Routes == {"GET /health", "POST /api/ping", "POST /api/traceroute", "GET /other"}

DiagRoutes == {"POST /api/ping", "POST /api/traceroute"}

(***************************************************************************)
(* Request bodies: none at all, malformed JSON, or a JSON object whose     *)
(* target property is the given value (Undefined: no target property).     *)
(***************************************************************************)
BodyAbsent == [kind |-> "absent", target |-> Undefined]

BodyMalformed == [kind |-> "malformed", target |-> Undefined]

BodyJson(v) == [kind |-> "json", target |-> v]

HostTarget == <<"a","-","b",".","c">>

\* "a.com; rm -rf /"
InjectTarget == <<"a",".","c","o","m",";"," ","r","m"," ","-","r","f"," ","/">>

HyphenTarget == <<"-","a">>

Targets ==
    {Undefined, Num(123), Str(<<>>), Str(HostTarget), Str(InjectTarget),
     Str(HyphenTarget)}

Bodies == {BodyAbsent, BodyMalformed} \cup {BodyJson(v) : v \in Targets}

\* The bodies the model sends to a route: the routes that read no body get
\* none, or a malformed one.
BodiesOf(route) ==
    IF route \in DiagRoutes THEN Bodies ELSE {BodyAbsent, BodyMalformed}

\* What req.body can be when the request has no body: {} or undefined.
Bodyless(body) ==
    IF body.kind = "absent" THEN {"object", "undefined"} ELSE {"object"}

(***************************************************************************)
(* Response bodies (server.js:19, 39-43, 47-51, 58-62, 70-73, 118-121,     *)
(* 126-129).  A body is a record holding exactly the fields the JSON has.  *)
(* "ISO" stands for new Date().toISOString().                              *)
(***************************************************************************)
SuccessEnvelope(output) ==
    [success |-> TRUE, output |-> output, timestamp |-> "ISO"]

FailureEnvelope(message) ==
    [success |-> FALSE, error |-> message, timestamp |-> "ISO"]

InvalidTargetBody ==
    [success |-> FALSE,
     error |-> "Invalid target. Please provide a valid domain or IP address."]

InternalErrorBody == [success |-> FALSE, error |-> "Internal server error"]

NotFoundBody == [success |-> FALSE, error |-> "Endpoint not found"]

TooManyBody == [error |-> "Too many requests, please try again later."]

HealthBody == [status |-> "ok", timestamp |-> "ISO", location |-> "unknown"]

(***************************************************************************)
(* State.                                                                  *)
(*   isWindows  process.platform === 'win32'                               *)
(*   hits       the limiter's counter per IP in the current window         *)
(*   windowAge  milliseconds since the limiter's window began              *)
(*   reqs       the requests in flight, one per slot                       *)
(*   resp       the response sent by the step just taken (status 0: none)  *)
(*   passed     per IP, the requests the limiter let through this window   *)
(*   vIn, vCalled, vRet   an argument of validateTarget, whether it was    *)
(*              called, and what it returned                               *)
(***************************************************************************)
VARIABLES isWindows, hits, windowAge, reqs, resp, passed, vIn, vCalled, vRet

vars == <<isWindows, hits, windowAge, reqs, resp, passed, vIn, vCalled, vRet>>

validatorVars == <<vIn, vCalled, vRet>>

NoOutcome == [kind |-> "none", stdout |-> <<>>, stderr |-> <<>>]

FreeSlot ==
    [st |-> "free", ip |-> "", route |-> "", target |-> Undefined, cmd |-> <<>>,
     timeout |-> 0, elapsed |-> 0, sent |-> 0, spawns |-> 0]

NoResp ==
    [status |-> 0, json |-> [none |-> TRUE], n |-> 0, ip |-> "", route |-> "",
     body |-> BodyAbsent, spawns |-> 0, outcome |-> NoOutcome, cmd |-> <<>>,
     timeout |-> 0, elapsed |-> 0, over |-> FALSE]

(***************************************************************************)
(* Outcomes of a spawned process, as exec reports them to its callback:    *)
(* a clean exit, a non-zero exit, a kill at the deadline, a spawn error.   *)
(***************************************************************************)
Stdouts == {<<>>, <<"r","t","t">>}

Stderrs == {<<>>, <<"e","r","r">>}

Outcomes ==
    [kind : {"exit0"}, stdout : Stdouts, stderr : Stderrs]
      \cup [kind : {"killed"}, stdout : {<<>>}, stderr : Stderrs]
      \cup [kind : {"nonzero"}, stdout : {<<>>}, stderr : Stderrs \ {<<>>}]
      \cup [kind : {"spawnError"}, stdout : {<<>>}, stderr : {<<>>}]

\* error.message as child_process.exec builds it.
ErrorMessage(cmd, o) ==
    IF o.kind = "spawnError" THEN SpawnFailed
    ELSE CommandFailed \o cmd \o <<"\n">> \o o.stderr

\* `${target}` in a template literal.
ToTemplate(v) ==
    CASE v.type = "string"    -> v.val
      [] v.type = "undefined" -> <<"u","n","d","e","f","i","n","e","d">>
      [] v = Null             -> <<"n","u","l","l">>
      [] OTHER                -> <<"1","2","3">>

\* The command line of a route for a target (server.js:78-81, 103-106).
Command(route, target, win) ==
    IF route = "POST /api/ping"
    THEN (IF win THEN PingWindows ELSE PingUnix) \o ToTemplate(target)
    ELSE (IF win THEN TracerouteWindows ELSE TracerouteUnix) \o ToTemplate(target)

\* Faulty variant of Timeout: traceroute run under the default timeout.
TimeoutDefaultOnly(route) == DefaultTimeout

\* The timeout a route passes to runCommand (server.js:83, 108).
Timeout(route) ==
    IF route = "POST /api/traceroute" THEN TracerouteTimeout ELSE DefaultTimeout

\* Faulty variant of LimiterAllows: one request too many.
LimiterAllowsOneMore(h) == h <= max + 1

\* The limiter lets a request through when the IP's count, this request
\* included, does not exceed max (server.js:16-21).
LimiterAllows(h) == h <= max

\* What a handler does with a request: the response it sends (status 0: none)
\* and whether it spawns a process.
Answer(status, json) == [status |-> status, json |-> json, spawn |-> FALSE]

SpawnPlan == [status |-> 0, json |-> [none |-> TRUE], spawn |-> TRUE]

\* validateTarget on the targets the model's requests carry, tabulated.
Validated == [v \in Targets |-> validateTarget(v)]

\* Faulty variant of DiagHandler: the 400 is sent without returning.
DiagHandlerNoReturn(target) ==
    IF ~Validated[target]
    THEN [status |-> 400, json |-> InvalidTargetBody, spawn |-> TRUE]
    ELSE SpawnPlan

\* The ping and traceroute handlers up to the await (server.js:66-83, 91-108).
DiagHandler(target) ==
    IF ~Validated[target] THEN Answer(400, InvalidTargetBody)
    ELSE SpawnPlan

\* The route a request that passed the middleware reaches (server.js:57-130).
\* bodyless is what req.body is when the request has no body: "object" ({})
\* or "undefined", on which `const { target } = req.body` throws and the
\* router hands the error to the error handler.
Dispatch(route, body, bodyless) ==
    CASE route = "GET /health" -> Answer(200, HealthBody)
      [] route \in DiagRoutes ->
           IF body.kind = "absent" /\ bodyless = "undefined"
           THEN Answer(500, InternalErrorBody)
           ELSE DiagHandler(body.target)
      [] OTHER -> Answer(404, NotFoundBody)

\* The middleware chain (server.js:11-21): express.json() fails on malformed
\* JSON before the limiter runs; the limiter counts the request and answers
\* 429 when the IP is over its limit.  h is the IP's count before the request.
Middleware(route, body, bodyless, h) ==
    IF body.kind = "malformed"
    THEN [counted |-> FALSE, plan |-> Answer(500, InternalErrorBody)]
    ELSE IF ~LimiterAllows(h + 1)
    THEN [counted |-> TRUE, plan |-> Answer(429, TooManyBody)]
    ELSE [counted |-> TRUE, plan |-> Dispatch(route, body, bodyless)]

\* Faulty variant of Settle: the standard error preferred to the output.
SettleStderrFirst(cmd, o) ==
    IF o.kind # "exit0"
    THEN [resolved |-> FALSE, value |-> FailureEnvelope(ErrorMessage(cmd, o))]
    ELSE [resolved |-> TRUE,
          value |-> SuccessEnvelope(IF o.stderr # <<>> THEN o.stderr ELSE o.stdout)]

\* runCommand's exec callback (server.js:37-52): how the promise settles.
Settle(cmd, o) ==
    IF o.kind # "exit0"
    THEN [resolved |-> FALSE, value |-> FailureEnvelope(ErrorMessage(cmd, o))]
    ELSE [resolved |-> TRUE,
          value |-> SuccessEnvelope(IF o.stdout # <<>> THEN o.stdout ELSE o.stderr)]

\* Faulty variant of AfterAwait: no try/catch around the await, so that a
\* rejection escapes and nothing is sent.
AfterAwaitNoCatch(settled) ==
    IF settled.resolved THEN Answer(200, settled.value)
    ELSE [status |-> 0, json |-> [none |-> TRUE], spawn |-> FALSE]

\* The handlers after the await (server.js:83-87, 108-112).
AfterAwait(settled) ==
    IF settled.resolved THEN Answer(200, settled.value)
    ELSE Answer(500, settled.value)

\* The response a step sends, with the request it answers: n is the number of
\* responses the request has had, this one included; over says whether the
\* IP had used up its limit when the request came.
Observed(r, ip, route, body, plan, o, over) ==
    [status |-> plan.status, json |-> plan.json, n |-> r.sent + 1, ip |-> ip,
     route |-> route, body |-> body, spawns |-> r.spawns, outcome |-> o,
     cmd |-> r.cmd, timeout |-> r.timeout, elapsed |-> r.elapsed, over |-> over]

(***************************************************************************)
(* Actions of the server.                                                  *)
(***************************************************************************)
\* A request arrives and runs through the middleware and its handler, up to
\* its response or to the spawn of its process.
Request(s, ip, route, body, bodyless) ==
    /\ reqs[s].st = "free"
    /\ hits[ip] < max + MaxOver
    /\ LET m == Middleware(route, body, bodyless, hits[ip])
           through == m.counted /\ m.plan.status # 429
       IN  /\ hits' = IF m.counted THEN [hits EXCEPT ![ip] = @ + 1] ELSE hits
           /\ passed' = IF through THEN [passed EXCEPT ![ip] = @ + 1] ELSE passed
           /\ reqs' = IF m.plan.spawn
                      THEN [reqs EXCEPT ![s] =
                              [st |-> "pending", ip |-> ip, route |-> route,
                               target |-> body.target,
                               cmd |-> Command(route, body.target, isWindows),
                               timeout |-> Timeout(route), elapsed |-> 0,
                               sent |-> IF m.plan.status = 0 THEN 0 ELSE 1,
                               spawns |-> 1]]
                      ELSE reqs
           /\ resp' = IF m.plan.status = 0 THEN NoResp
                      ELSE Observed(FreeSlot, ip, route, body, m.plan, NoOutcome,
                                    hits[ip] >= max)
    /\ UNCHANGED <<isWindows, windowAge, validatorVars>>

\* Faulty variant of CanCallBack: commands run one at a time, in slot order.
CanCallBackQueued(s, o) ==
    /\ reqs[s].st = "pending"
    /\ (o.kind = "killed") <=> (reqs[s].elapsed >= reqs[s].timeout)
    /\ \A u \in Slots : u < s => reqs[u].st # "pending"

\* When exec can call back for slot s with outcome o (server.js:37): the
\* process of s is running; it is killed when its timeout has run out, and
\* can end in the other ways before that.
CanCallBack(s, o) ==
    /\ reqs[s].st = "pending"
    /\ (o.kind = "killed") <=> (reqs[s].elapsed >= reqs[s].timeout)

\* exec calls back with the outcome of the process of slot s; the promise
\* settles and the handler answers.  A handler that sends nothing leaves the
\* request unanswered for good.
ExecCallback(s, o) ==
    /\ CanCallBack(s, o)
    /\ LET r == reqs[s]
           plan == AfterAwait(Settle(r.cmd, o))
       IN  /\ resp' = IF plan.status = 0 THEN NoResp
                      ELSE Observed(r, r.ip, r.route, BodyJson(r.target), plan, o,
                                    FALSE)
           /\ reqs' = [reqs EXCEPT ![s] =
                         IF plan.status = 0 THEN [r EXCEPT !.st = "unanswered"]
                         ELSE FreeSlot]
    /\ UNCHANGED <<isWindows, hits, windowAge, passed, validatorVars>>

\* Time passes, unless a process deadline is due.  When the limiter's window
\* ends, its counters are reset.
Tick ==
    /\ \A s \in Slots : reqs[s].st = "pending" => reqs[s].elapsed < reqs[s].timeout
    /\ reqs' = [s \in Slots |->
                  IF reqs[s].st = "pending"
                  THEN [reqs[s] EXCEPT !.elapsed = @ + TickMs] ELSE reqs[s]]
    /\ IF windowAge + TickMs >= windowMs
       THEN /\ windowAge' = 0
            /\ hits' = [ip \in IPs |-> 0]
            /\ passed' = [ip \in IPs |-> 0]
       ELSE /\ windowAge' = windowAge + TickMs
            /\ UNCHANGED <<hits, passed>>
    /\ resp' = NoResp
    /\ UNCHANGED <<isWindows, validatorVars>>

\* The lowest free slot: the next request in flight takes it.
FreeSlots == {s \in Slots : reqs[s].st = "free"}

NextSlot == CHOOSE s \in FreeSlots : \A u \in FreeSlots : s <= u

Init ==
    /\ isWindows \in BOOLEAN
    /\ hits = [ip \in IPs |-> 0]
    /\ windowAge = 0
    /\ reqs = [s \in Slots |-> FreeSlot]
    /\ resp = NoResp
    /\ passed = [ip \in IPs |-> 0]
    /\ vIn = Undefined
    /\ vCalled = FALSE
    /\ vRet = FALSE

\* One client, every route and body, MaxSlots requests in flight.
Next ==
    \/ /\ FreeSlots # {}
       /\ \E route \in Routes : \E body \in BodiesOf(route) :
             \E bodyless \in Bodyless(body) :
                Request(NextSlot, "ip1", route, body, bodyless)
    \/ \E s \in Slots, o \in Outcomes : ExecCallback(s, o)
    \/ Tick

Spec == Init /\ [][Next]_vars

\* exec calls back for every process it started, and time does not stop.
Fairness ==
    /\ WF_vars(Tick)
    /\ \A s \in Slots : WF_vars(\E o \in Outcomes : ExecCallback(s, o))

FairSpec == Spec /\ Fairness

\* Two clients and one request in flight: the limiter's workload.
LimiterBodies(route) ==
    IF route \in DiagRoutes
    THEN {BodyJson(Str(HostTarget)), BodyJson(Str(InjectTarget))}
    ELSE {BodyAbsent}

NextL ==
    \/ /\ reqs[1].st = "free"
       /\ \E ip \in IPs, route \in {"GET /health", "POST /api/ping"} :
             \E body \in LimiterBodies(route) : Request(1, ip, route, body, "object")
    \/ \E o \in Outcomes : ExecCallback(1, o)
    \/ Tick

SpecL == Init /\ [][NextL]_vars

(***************************************************************************)
(* The validator on its own: validateTarget called once on an argument     *)
(* drawn from Inputs.                                                      *)
(***************************************************************************)
\* Longest string of the exhaustive part of Inputs.
MaxLen == 4

SmallAlphabet == {"a", "7", "-", ".", ";", "\n"}

ShortStrings == UNION {[1..n -> SmallAlphabet] : n \in 0..MaxLen}

Run(c, n) == [i \in 1..n |-> c]

\* Labels of 61 to 65 characters, alone and beside a second label; with a
\* hyphen inside, at the start or at the end.
LongStrings ==
    UNION {{Run("a", n),
            <<"a">> \o Run("-", n - 2) \o <<"a">>,
            Run("a", n - 1) \o <<"-">>,
            <<"-">> \o Run("a", n - 1),
            Run("a", n) \o <<".", "b">>,
            <<"b", ".">> \o Run("Z", n),
            <<"b", ".">> \o Run("a", n - 1) \o <<"-">>}
           : n \in InteriorMax .. InteriorMax + 4}

OctetSamples == {<<"0">>, <<"1">>, <<"0","9">>, <<"2","5","5">>, <<"2","5","6">>,
                 <<"3","0","0">>}

Dotted(a, b) == a \o <<".">> \o b

Quads == {Dotted(Dotted(a, b), Dotted(c, d)) : a, b, c, d \in OctetSamples}

Triples == {Dotted(a, Dotted(b, c)) : a, b, c \in {<<"1">>, <<"2","5","6">>}}

Quints == {Dotted(q, <<"1">>) : q \in {Dotted(Dotted(a, a), Dotted(a, a)) : a \in OctetSamples}}

LongOctets ==
    {Dotted(Dotted(a, <<"1">>), Dotted(<<"1">>, b))
       : a, b \in {<<"1">>, <<"1","0","0","0">>, <<"0","0","0","1">>, <<"1","9","9">>,
                   <<"2","4","9">>, <<"2","6","0">>, <<"0","0","7">>}}

\* The strings the specification names.
Ex192 == <<"1","9","2",".","1","6","8",".","1",".","1">>

Ex127 == <<"1","2","7",".","0",".","0",".","1">>

ExBad == <<"-","b","a","d",".","c","o","m">>

ExGood == <<"g","o","o","d","-","h","o","s","t",".","e","x","a","m","p","l","e",
            ".","c","o","m">>

ExNotValid == <<"n","o","t","_","a","_","v","a","l","i","d","_","h","o","s","t","!">>

Examples == {Ex192, Ex127, ExBad, ExGood, ExNotValid, InjectTarget, HostTarget}

NonStrings == {Undefined, Null, Num(0), Num(123), Bool(TRUE), Bool(FALSE), Obj}

Inputs ==
    NonStrings \cup
    {Str(s) : s \in ShortStrings \cup LongStrings \cup Quads \cup Triples
                      \cup Quints \cup LongOctets \cup Examples}

ServerIdle ==
    /\ isWindows = FALSE
    /\ hits = [ip \in IPs |-> 0]
    /\ windowAge = 0
    /\ reqs = [s \in Slots |-> FreeSlot]
    /\ resp = NoResp
    /\ passed = [ip \in IPs |-> 0]

InitV ==
    /\ ServerIdle
    /\ vIn \in Inputs
    /\ vCalled = FALSE
    /\ vRet = FALSE

CallValidate ==
    /\ ~vCalled
    /\ vCalled' = TRUE
    /\ vRet' = validateTarget(vIn)
    /\ UNCHANGED <<vIn, isWindows, hits, windowAge, reqs, resp, passed>>

NextV == CallValidate

SpecV == InitV /\ [][NextV]_vars

(***************************************************************************)
(* The grammars of the specification, stated on the labels of a string     *)
(* (the parts between its dots), independently of the regular expressions. *)
(***************************************************************************)
RECURSIVE Labels(_)
Labels(s) ==
    IF \A i \in 1..Len(s) : s[i] # "."
    THEN <<s>>
    ELSE LET d == CHOOSE i \in 1..Len(s) : s[i] = "." /\ \A j \in 1..(i - 1) : s[j] # "."
         IN  <<SubSeq(s, 1, d - 1)>> \o Labels(SubSeq(s, d + 1, Len(s)))

\* 1 to 63 characters, alphanumeric, hyphens only in the interior.
HostLabel(l) ==
    /\ Len(l) >= 1
    /\ Len(l) <= 63
    /\ \A i \in 1..Len(l) : l[i] \in Alnum \cup {"-"}
    /\ l[1] # "-"
    /\ l[Len(l)] # "-"

HostnameGrammar(s) ==
    LET ls == Labels(s) IN \A i \in 1..Len(ls) : HostLabel(ls[i])

DigitValue(c) ==
    CASE c = "0" -> 0 [] c = "1" -> 1 [] c = "2" -> 2 [] c = "3" -> 3 [] c = "4" -> 4
      [] c = "5" -> 5 [] c = "6" -> 6 [] c = "7" -> 7 [] c = "8" -> 8 [] c = "9" -> 9

RECURSIVE Decimal(_)
Decimal(l) ==
    IF l = <<>> THEN 0
    ELSE 10 * Decimal(SubSeq(l, 1, Len(l) - 1)) + DigitValue(l[Len(l)])

IsDecimal(l) == Len(l) >= 1 /\ \A i \in 1..Len(l) : l[i] \in Digit

\* An octet as the specification's IPv4 grammar has it: one to three digits
\* (the three alternatives of the octet pattern), of value 0 to 255.
Octet(l) == IsDecimal(l) /\ Len(l) <= 3 /\ Decimal(l) <= 255

IPv4Grammar(s) ==
    LET ls == Labels(s) IN Len(ls) = 4 /\ \A i \in 1..4 : Octet(ls[i])

\* Four dot-separated decimal numbers, one of them above 255.
QuadOutOfRange(s) ==
    LET ls == Labels(s)
    IN  /\ Len(ls) = 4
        /\ \A i \in 1..4 : IsDecimal(ls[i])
        /\ \E i \in 1..4 : Decimal(ls[i]) > 255

Called(s) == vCalled /\ vIn = Str(s)

(***************************************************************************)
(* C1: validateTarget returns false when its argument is absent, not a     *)
(* string or the empty string; for every other string it returns true      *)
(* exactly when the whole string matches the hostname grammar or the IPv4  *)
(* grammar; it always returns a boolean (it never throws).                 *)
(***************************************************************************)
C1_ValidateIsGrammar ==
    vCalled =>
      /\ vRet \in BOOLEAN
      /\ (vIn.type # "string" \/ vIn.val = <<>>) => vRet = FALSE
      /\ (vIn.type = "string" /\ vIn.val # <<>>) =>
            (vRet <=> (HostnameGrammar(vIn.val) \/ IPv4Grammar(vIn.val)))

\* A name of two labels, one of them 63 characters long, was accepted.
C1_Witness ==
    /\ vCalled
    /\ vRet
    /\ vIn.type = "string"
    /\ Len(vIn.val) > 63
    /\ HostnameGrammar(vIn.val)

(***************************************************************************)
(* C2: validateTarget rejects every four-part dotted-decimal string that   *)
(* has an octet outside 0-255; it rejects "256.1.1.1" and "-bad.com" and   *)
(* accepts "192.168.1.1" and "good-host.example.com".                      *)
(***************************************************************************)
C2_RejectsOutOfRangeOctets ==
    /\ (vCalled /\ vIn.type = "string" /\ QuadOutOfRange(vIn.val)) => vRet = FALSE
    /\ Called(Ex192) => vRet = TRUE
    /\ Called(ExBad) => vRet = FALSE
    /\ Called(ExGood) => vRet = TRUE

(***************************************************************************)
(* Vocabulary of the claims about the server.                              *)
(***************************************************************************)
Answered == resp.status # 0

DiagAnswered == Answered /\ resp.route \in DiagRoutes

\* The response is the one a spawned process led to.
ProcessAnswered == Answered /\ resp.outcome.kind # "none"

Pending(s) == reqs[s].st = "pending"

\* [A-Za-z0-9.-]
SafeChars == Alnum \cup {".", "-"}

\* The command table of the specification.
CmdPrefix(route, win) ==
    CASE route = "POST /api/ping" /\ ~win       -> PingUnix
      [] route = "POST /api/ping" /\ win        -> PingWindows
      [] route = "POST /api/traceroute" /\ ~win -> TracerouteUnix
      [] route = "POST /api/traceroute" /\ win  -> TracerouteWindows

Contains(s, sub) ==
    \E i \in 1..(Len(s) - Len(sub) + 1) : SubSeq(s, i, i + Len(sub) - 1) = sub

TimedOut == <<"t","i","m","e","d"," ","o","u","t">>

FailureFields == {"success", "error", "timestamp"}

(***************************************************************************)
(* C3: every command handed to runCommand by the ping or traceroute        *)
(* handler is the route's command followed by a target that validateTarget *)
(* accepted, and that target consists only of characters of [A-Za-z0-9.-]  *)
(* and does not begin with a hyphen.                                       *)
(***************************************************************************)
C3_CommandsEmbedValidTargets ==
    \A s \in Slots :
       reqs[s].st # "free" =>
          LET r == reqs[s]
          IN  /\ r.route \in DiagRoutes
              /\ r.target.type = "string"
              /\ validateTarget(r.target)
              /\ r.cmd = CmdPrefix(r.route, isWindows) \o r.target.val
              /\ \A i \in 1..Len(r.target.val) : r.target.val[i] \in SafeChars
              /\ r.target.val # <<>>
              /\ r.target.val[1] # "-"

\* On Windows, a traceroute of a-b.c is running.
C3_Witness ==
    \E s \in Slots :
       /\ Pending(s)
       /\ isWindows
       /\ reqs[s].cmd = TracerouteWindows \o HostTarget

(***************************************************************************)
(* C4: a request to /api/ping or /api/traceroute whose target              *)
(* validateTarget rejects is answered with status 400 and the "Invalid     *)
(* target" body, and no command is built or spawned for it, then or later: *)
(* every process belongs to an unanswered request with an accepted target. *)
(***************************************************************************)
C4_RejectedTargetGets400 ==
    /\ (/\ DiagAnswered
        /\ resp.body.kind = "json"
        /\ ~resp.over
        /\ ~validateTarget(resp.body.target))
         => /\ resp.status = 400
            /\ resp.json = InvalidTargetBody
            /\ resp.n = 1
            /\ resp.spawns = 0
            /\ resp.cmd = <<>>
            /\ resp.outcome = NoOutcome
    /\ \A s \in Slots :
          reqs[s].st # "free" => reqs[s].sent = 0 /\ validateTarget(reqs[s].target)

\* "a.com; rm -rf /" was answered 400 while another request's process runs.
C4_Witness ==
    /\ resp.status = 400
    /\ resp.body = BodyJson(Str(InjectTarget))
    /\ \E s \in Slots : Pending(s)

C6_OutcomeDeterminesResponse ==
    /\ ProcessAnswered =>
          /\ resp.outcome.kind = "exit0" =>
                /\ resp.status = 200
                /\ resp.json =
                      [success |-> TRUE,
                       output |-> IF resp.outcome.stdout # <<>> THEN resp.outcome.stdout
                                  ELSE resp.outcome.stderr,
                       timestamp |-> "ISO"]
          /\ resp.outcome.kind \in {"nonzero", "killed", "spawnError"} =>
                /\ resp.status = 500
                /\ DOMAIN resp.json = FailureFields
                /\ resp.json.success = FALSE
    /\ Answered => ~({"output", "error"} \subseteq DOMAIN resp.json)

\* A clean exit with nothing on standard output: the output is the standard error.
C6_Witness ==
    /\ ProcessAnswered
    /\ resp.outcome.kind = "exit0"
    /\ resp.outcome.stdout = <<>>
    /\ resp.outcome.stderr # <<>>
    /\ resp.json.output = resp.outcome.stderr

(***************************************************************************)
(* C7 as claimed: every response to a request to /api/ping or              *)
(* /api/traceroute is the request's only one and has a success field.      *)
(***************************************************************************)
C7_EveryResponseHasSuccess ==
    DiagAnswered => resp.n = 1 /\ "success" \in DOMAIN resp.json

(***************************************************************************)
(* C7 as amended: every request to /api/ping or /api/traceroute gets       *)
(* exactly one response; the response has a success field unless the       *)
(* request was over the rate limit, when it is the 429 body, which has     *)
(* none; a request whose process was spawned is eventually answered, and   *)
(* none is left unanswered by an escaped rejection.                        *)
(***************************************************************************)
C7_AdmittedRequestsAnswered ==
    /\ [](DiagAnswered =>
            /\ resp.n = 1
            /\ IF resp.over /\ resp.body.kind # "malformed"
               THEN resp.status = 429 /\ resp.json = TooManyBody
               ELSE "success" \in DOMAIN resp.json)
    /\ [](\A s \in Slots : reqs[s].st \in {"free", "pending"} /\ reqs[s].sent = 0)
    /\ \A s \in Slots : Pending(s) ~> (reqs[s].st = "free")

\* A request without a body was answered by the error handler.
C7_Witness ==
    /\ DiagAnswered
    /\ resp.body.kind = "absent"
    /\ resp.status = 500
    /\ resp.json = InternalErrorBody

(***************************************************************************)
(* C8: GET /health always returns status 200 with status "ok" and a        *)
(* timestamp, after any earlier requests of the same client and in any     *)
(* state of the rate-limit counter and of the pending commands.            *)
(***************************************************************************)
C8_HealthAlwaysOk ==
    (Answered /\ resp.route = "GET /health" /\ resp.body.kind = "absent") =>
       resp.status = 200 /\ resp.json = HealthBody

C10_IndependentProcesses ==
    /\ [](\A s \in Slots :
            Pending(s) =>
               /\ reqs[s].spawns = 1
               /\ reqs[s].sent = 0
               /\ ENABLED (\E o \in Outcomes : ExecCallback(s, o)))
    /\ [](ProcessAnswered =>
            /\ resp.spawns = 1
            /\ resp.n = 1
            /\ resp.status = (IF resp.outcome.kind = "exit0" THEN 200 ELSE 500)
            /\ resp.outcome.kind \in {"nonzero", "killed"} =>
                  resp.json.error = CommandFailed \o resp.cmd \o <<"\n">> \o resp.outcome.stderr)
    /\ [][\A s \in Slots :
             reqs[s].st # reqs'[s].st =>
                \A u \in Slots \ {s} : reqs'[u] = reqs[u]]_vars

\* Of two requests with the same command, one was answered while the
\* process of the other is still running.
C10_Witness ==
    /\ ProcessAnswered
    /\ \E s \in Slots : Pending(s) /\ reqs[s].cmd = resp.cmd

=============================================================================
